---------------------------- MODULE Spec2Model ----------------------------
(***************************************************************************)
(* TruthLens: the classification pipeline of src/src.                      *)
(*                                                                         *)
(* A text (the input, a model reply) is a sequence of lexical units.  A   *)
(* unit is one character, except that the literals the parser's regular    *)
(* expressions look for (the three labels, REAL, FAKE, in either case) are *)
(* single units.  Python values that may be None are tagged records:      *)
(* None, PyStr(s), PyInt(n), PyList(v).  Messages and the classification   *)
(* labels are TLA+ strings.                                                *)
(***************************************************************************)
EXTENDS Integers, Sequences, FiniteSets, TLC

VARIABLES
    text,           \* classify's / validate_input's argument
    min_length,     \* validate_input's min_length
    max_length,     \* validate_input's max_length
    max_retries,    \* OllamaHandler.max_retries
    pc,             \* position in the running call
    validation,     \* (is_valid, error_msg) returned by validate_input
    cleaned_text,   \* classify's cleaned_text
    features,       \* classify's features
    prompt,         \* classify's prompt
    attempt,        \* generate_response's loop variable
    posts,          \* outcomes of the requests.post calls issued so far
    gen_calls,      \* number of generate_response calls made
    model_output,   \* generate_response's return value
    response,       \* _parse_model_response's argument
    parsed_result,  \* _parse_model_response's return value
    result          \* classify's return value

vars == <<text, min_length, max_length, max_retries, pc, validation,
          cleaned_text, features, prompt, attempt, posts, gen_calls,
          model_output, response, parsed_result, result>>

-----------------------------------------------------------------------------
(* Bounds of the model *)

\* Longest text, in characters, given to validate_input on its own.
MaxLen == 4
\* Largest min_length / max_length given to validate_input on its own.
MaxBound == 3
\* Number of chunks a classify input is made of.
MaxTextChunks == 2
\* Largest configured max_retries.
MaxRetries == 2
\* Number of chunks an HTTP reply text is made of.
MaxHttpChunks == 2
\* Number of chunks a reply given to the parser on its own is made of.
MaxReplyChunks == 4
\* Longest text, in characters, given to clean_text on its own.
MaxCleanLen == 5
\* Number of chunks a text given to extract_features on its own is made of.
MaxFeatureChunks == 3

(* Program constants *)

\* validate_input's default min_length and max_length.
DEFAULT_MIN_LENGTH == 10
DEFAULT_MAX_LENGTH == 10000
\* The parser's default confidence, its clamp and the digits it reads.
DEFAULT_CONFIDENCE == 50
MIN_CONFIDENCE == 0
MAX_CONFIDENCE == 100
MAX_CONFIDENCE_DIGITS == 3

-----------------------------------------------------------------------------
(* Python values *)

None == [type |-> "NoneType"]
PyStr(s) == [type |-> "str", value |-> s]
PyInt(n) == [type |-> "int", value |-> n]
PyList(v) == [type |-> "list", value |-> v]

\* The state of a variable no call has assigned yet.
Unset == [type |-> "unset"]

-----------------------------------------------------------------------------
(* Characters *)

\* \p{L}: "a" is a lower-case letter, "A" an upper-case one.
Letters == {"a", "A", "x", "X", "S", "H", "O", "C", "K", "I", "N", "G"}
UpperLetters == {"A", "X", "S", "H", "O", "C", "K", "I", "N", "G"}
\* \d
DigitChars == {"0", "1", "5", "9"}
\* \w: letters, digits and the underscore.
WordChars == Letters \cup DigitChars \cup {"_"}
\* \s
Whitespace == {" ", "\n"}
\* [.,!?;:] of the repeated-punctuation pattern.
RepeatPunct == {".", ",", "!", "?", ";", ":"}
\* The punctuation clean_text keeps: .,!?;:'-
KeptPunct == RepeatPunct \cup {"'", "-"}

IsSpace(c) == c \in Whitespace
IsLetter(c) == c \in Letters \/ c \in {"classification", "CLASSIFICATION",
    "confidence", "CONFIDENCE", "reasoning", "REASONING", "real", "REAL",
    "fake", "FAKE"}

\* n copies of c.
Rep(c, n) == [i \in 1..n |-> c]

RECURSIVE Flatten(_)
Flatten(ss) == IF ss = <<>> THEN <<>> ELSE Head(ss) \o Flatten(Tail(ss))

\* All sequences of at most n chunks of S, each flattened to one text.
ChunkTexts(S, n) == UNION {{Flatten(cs) : cs \in [1..k -> S]} : k \in 0..n}

-----------------------------------------------------------------------------
(* str methods *)

RECURSIVE lstrip(_)
lstrip(s) ==
    IF s = <<>> THEN s
    ELSE IF IsSpace(Head(s)) THEN lstrip(Tail(s)) ELSE s

RECURSIVE rstrip(_)
rstrip(s) ==
    IF s = <<>> THEN s
    ELSE IF IsSpace(s[Len(s)]) THEN rstrip(SubSeq(s, 1, Len(s) - 1)) ELSE s

\* str.strip()
strip(s) == rstrip(lstrip(s))

\* Length of the leading run of non-whitespace characters of s.
RECURSIVE WordLen(_)
WordLen(s) ==
    IF s = <<>> \/ IsSpace(Head(s)) THEN 0 ELSE 1 + WordLen(Tail(s))

\* str.split(): the maximal runs of non-whitespace characters.
RECURSIVE split(_)
split(s) ==
    LET t == lstrip(s)
        n == WordLen(t)
    IN IF t = <<>> THEN <<>>
       ELSE <<SubSeq(t, 1, n)>> \o split(SubSeq(t, n + 1, Len(t)))

\* sep.join(words)
RECURSIVE join(_, _)
join(sep, words) ==
    IF words = <<>> THEN <<>>
    ELSE IF Len(words) = 1 THEN Head(words)
    ELSE Head(words) \o sep \o join(sep, Tail(words))

\* str.count(c)
count(s, c) == Cardinality({i \in 1..Len(s) : s[i] = c})

-----------------------------------------------------------------------------
(* TextPreprocessor *)

\* re.sub(r'[^\w\s.,!?;:\'-]', '', text)
remove_special(s) ==
    SelectSeq(s, LAMBDA c : c \in WordChars \/ IsSpace(c) \/ c \in KeptPunct)

\* re.sub(r'([.,!?;:])\1+', r'\1', text)
RECURSIVE collapse_punct(_)
collapse_punct(s) ==
    IF Len(s) < 2 THEN s
    ELSE IF Head(s) \in RepeatPunct /\ s[2] = Head(s)
         THEN collapse_punct(Tail(s))
         ELSE <<Head(s)>> \o collapse_punct(Tail(s))

clean_text(t) ==
    IF t = <<>> THEN <<>>
    ELSE strip(collapse_punct(remove_special(join(<<" ">>, split(t)))))

\* validate_input with the alphabetic check made before the length checks.
validate_input_alpha_first(t, min, max) ==
    IF t = <<>> \/ strip(t) = <<>>
    THEN <<FALSE, PyStr("Text cannot be empty")>>
    ELSE LET cleaned == strip(t) IN
         IF ~ \E i \in 1..Len(cleaned) : IsLetter(cleaned[i])
         THEN <<FALSE, PyStr("Text must contain alphabetic characters")>>
         ELSE IF Len(cleaned) < min
         THEN <<FALSE, PyStr("Text too short. Minimum " \o ToString(min)
                            \o " characters required")>>
         ELSE IF Len(cleaned) > max
         THEN <<FALSE, PyStr("Text too long. Maximum " \o ToString(max)
                            \o " characters allowed")>>
         ELSE <<TRUE, None>>

\* validate_input measuring the raw text instead of the stripped one.
validate_input_raw_len(t, min, max) ==
    IF t = <<>> \/ strip(t) = <<>>
    THEN <<FALSE, PyStr("Text cannot be empty")>>
    ELSE LET cleaned == strip(t) IN
         IF Len(t) < min
         THEN <<FALSE, PyStr("Text too short. Minimum " \o ToString(min)
                            \o " characters required")>>
         ELSE IF Len(t) > max
         THEN <<FALSE, PyStr("Text too long. Maximum " \o ToString(max)
                            \o " characters allowed")>>
         ELSE IF ~ \E i \in 1..Len(cleaned) : IsLetter(cleaned[i])
         THEN <<FALSE, PyStr("Text must contain alphabetic characters")>>
         ELSE <<TRUE, None>>

\* validate_input taking digits for alphabetic characters (\w for \p{L}).
validate_input_alnum(t, min, max) ==
    IF t = <<>> \/ strip(t) = <<>>
    THEN <<FALSE, PyStr("Text cannot be empty")>>
    ELSE LET cleaned == strip(t) IN
         IF Len(cleaned) < min
         THEN <<FALSE, PyStr("Text too short. Minimum " \o ToString(min)
                            \o " characters required")>>
         ELSE IF Len(cleaned) > max
         THEN <<FALSE, PyStr("Text too long. Maximum " \o ToString(max)
                            \o " characters allowed")>>
         ELSE IF ~ \E i \in 1..Len(cleaned) :
                     IsLetter(cleaned[i]) \/ cleaned[i] \in WordChars
         THEN <<FALSE, PyStr("Text must contain alphabetic characters")>>
         ELSE <<TRUE, None>>

validate_input(t, min, max) ==
    IF t = <<>> \/ strip(t) = <<>>
    THEN <<FALSE, PyStr("Text cannot be empty")>>
    ELSE LET cleaned == strip(t) IN
         IF Len(cleaned) < min
         THEN <<FALSE, PyStr("Text too short. Minimum " \o ToString(min)
                            \o " characters required")>>
         ELSE IF Len(cleaned) > max
         THEN <<FALSE, PyStr("Text too long. Maximum " \o ToString(max)
                            \o " characters allowed")>>
         ELSE IF ~ \E i \in 1..Len(cleaned) : IsLetter(cleaned[i])
         THEN <<FALSE, PyStr("Text must contain alphabetic characters")>>
         ELSE <<TRUE, None>>

\* The clickbait word of the text test_feature_extraction gives.
ClickbaitWording == <<"S", "H", "O", "C", "K", "I", "N", "G">>

\* w in t
contains(t, w) ==
    \E i \in 1..(Len(t) - Len(w) + 1) : SubSeq(t, i, i + Len(w) - 1) = w

\* extract_features with the clickbait check enabled.
extract_features_clickbait(t) ==
    [length |-> Len(t),
     word_count |-> Len(split(t)),
     exclamation_count |-> count(t, "!"),
     question_count |-> count(t, "?"),
     uppercase_ratio |->
        IF t # <<>>
        THEN [upper |-> Cardinality({i \in 1..Len(t) : t[i] \in UpperLetters}),
              of |-> Len(t)]
        ELSE [upper |-> 0, of |-> 1],
     has_clickbait_words |-> contains(t, ClickbaitWording)]

\* uppercase_ratio is the quotient upper / of, kept as the pair.
extract_features(t) ==
    [length |-> Len(t),
     word_count |-> Len(split(t)),
     exclamation_count |-> count(t, "!"),
     question_count |-> count(t, "?"),
     uppercase_ratio |->
        IF t # <<>>
        THEN [upper |-> Cardinality({i \in 1..Len(t) : t[i] \in UpperLetters}),
              of |-> Len(t)]
        ELSE [upper |-> 0, of |-> 1],
     has_clickbait_words |-> FALSE]

-----------------------------------------------------------------------------
(* Regular expressions of the response parser *)

\* str.upper(), unit by unit.
UpperOf(c) ==
    CASE c = "a" -> "A"
      [] c = "x" -> "X"
      [] c = "classification" -> "CLASSIFICATION"
      [] c = "confidence" -> "CONFIDENCE"
      [] c = "reasoning" -> "REASONING"
      [] c = "real" -> "REAL"
      [] c = "fake" -> "FAKE"
      [] OTHER -> c

upper(s) == [i \in 1..Len(s) |-> UpperOf(s[i])]

\* \s* from position i: the first position at or after i holding no whitespace.
RECURSIVE SkipSpace(_, _)
SkipSpace(s, i) ==
    IF i <= Len(s) /\ IsSpace(s[i]) THEN SkipSpace(s, i + 1) ELSE i

\* LABEL\s*[:\-]\s* matched at position i of s: the position after the match,
\* 0 when there is no match at i.
LabelAt(s, label, i) ==
    IF s[i] # label THEN 0
    ELSE LET j == SkipSpace(s, i + 1) IN
         IF j <= Len(s) /\ s[j] \in {":", "-"} THEN SkipSpace(s, j + 1) ELSE 0

\* \d{1,3} at position k of s: the number of digits matched (greedy), 0 to 3.
RECURSIVE DigitsAt(_, _, _)
DigitsAt(s, k, n) ==
    IF n < MAX_CONFIDENCE_DIGITS /\ k + n <= Len(s) /\ s[k + n] \in DigitChars
    THEN DigitsAt(s, k, n + 1) ELSE n

DigitValue(c) ==
    CASE c = "0" -> 0 [] c = "1" -> 1 [] c = "5" -> 5 [] c = "9" -> 9

\* int(digits)
RECURSIVE int(_)
int(ds) ==
    IF ds = <<>> THEN 0
    ELSE 10 * int(SubSeq(ds, 1, Len(ds) - 1)) + DigitValue(ds[Len(ds)])

\* The least element of a non-empty set of positions: re.search returns the
\* leftmost match.
Leftmost(S) == CHOOSE i \in S : \A j \in S : i <= j

\* re.search(r'CLASSIFICATION\s*[:\-]\s*(REAL|FAKE)', s): group(1), or None.
search_classification(s) ==
    LET at(i) == LET k == LabelAt(s, "CLASSIFICATION", i) IN
                 IF k # 0 /\ k <= Len(s) /\ s[k] \in {"REAL", "FAKE"}
                 THEN k ELSE 0
        starts == {i \in 1..Len(s) : at(i) # 0}
    IN IF starts = {} THEN None ELSE PyStr(s[at(Leftmost(starts))])

\* re.search(r'CONFIDENCE\s*[:\-]\s*(\d{1,3})', s): group(1), or None.
search_confidence(s) ==
    LET at(i) == LET k == LabelAt(s, "CONFIDENCE", i) IN
                 IF k # 0 /\ DigitsAt(s, k, 0) > 0 THEN k ELSE 0
        starts == {i \in 1..Len(s) : at(i) # 0}
    IN IF starts = {} THEN None
       ELSE LET k == at(Leftmost(starts)) IN
            PyStr(SubSeq(s, k, k + DigitsAt(s, k, 0) - 1))

\* re.search(r'REASONING\s*[:\-]\s*(.*)', s, re.IGNORECASE | re.DOTALL):
\* group(1), or None.
search_reasoning(s) ==
    LET u == upper(s)
        starts == {i \in 1..Len(s) : LabelAt(u, "REASONING", i) # 0}
    IN IF starts = {} THEN None
       ELSE PyStr(SubSeq(s, LabelAt(u, "REASONING", Leftmost(starts)), Len(s)))

Max(a, b) == IF a >= b THEN a ELSE b
Min(a, b) == IF a <= b THEN a ELSE b

-----------------------------------------------------------------------------
(* FakeNewsClassifier *)

\* The prompt is the fixed template with the text embedded in it.
_create_classification_prompt(t) ==
    [template |-> "You are an expert fact-checker ... News Article/Headline: {text} ...",
     text |-> t]

\* What a raised exception leaves in place of a return value.
Raised(e) == [type |-> "exception", value |-> e]

\* The try block without the clamp of line 65.
parse_fields_no_clamp(r) ==
    LET response_upper == upper(r.value)
        classification_match == search_classification(response_upper)
        confidence_match == search_confidence(response_upper)
        reasoning_match == search_reasoning(r.value)
    IN [type |-> "dict",
        classification |->
            IF classification_match # None THEN classification_match
            ELSE PyStr("UNKNOWN"),
        confidence |->
            PyInt(IF confidence_match # None THEN int(confidence_match.value)
                  ELSE DEFAULT_CONFIDENCE),
        reasoning |->
            IF reasoning_match # None THEN PyStr(strip(reasoning_match.value))
            ELSE PyStr(strip(r.value)),
        raw_response |-> r]

\* The try block as an all-or-nothing parse: one missing field and every
\* field takes its default.
parse_fields_all_or_nothing(r) ==
    LET response_upper == upper(r.value)
        classification_match == search_classification(response_upper)
        confidence_match == search_confidence(response_upper)
        reasoning_match == search_reasoning(r.value)
        all == /\ classification_match # None
               /\ confidence_match # None
               /\ reasoning_match # None
    IN [type |-> "dict",
        classification |->
            IF all THEN classification_match ELSE PyStr("UNKNOWN"),
        confidence |->
            PyInt(Max(MIN_CONFIDENCE, Min(MAX_CONFIDENCE,
                IF all THEN int(confidence_match.value)
                ELSE DEFAULT_CONFIDENCE))),
        reasoning |->
            IF all THEN PyStr(strip(reasoning_match.value))
            ELSE PyStr(strip(r.value)),
        raw_response |-> r]

\* The try block of _parse_model_response, for a str.
parse_fields(r) ==
    LET response_upper == upper(r.value)
        classification_match == search_classification(response_upper)
        confidence_match == search_confidence(response_upper)
        reasoning_match == search_reasoning(r.value)
    IN [type |-> "dict",
        classification |->
            IF classification_match # None THEN classification_match
            ELSE PyStr("UNKNOWN"),
        confidence |->
            PyInt(Max(MIN_CONFIDENCE, Min(MAX_CONFIDENCE,
                IF confidence_match # None THEN int(confidence_match.value)
                ELSE DEFAULT_CONFIDENCE))),
        reasoning |->
            IF reasoning_match # None THEN PyStr(strip(reasoning_match.value))
            ELSE PyStr(strip(r.value)),
        raw_response |-> r]

\* str has the methods upper and strip; a list has neither.
has_upper(r) == r.type = "str"
has_strip(r) == r.type = "str"

\* response.upper() raises AttributeError on a value that is no str, and so
\* does response.strip() in the except block: the exception leaves the parser.
_parse_model_response(r) ==
    IF has_upper(r) THEN parse_fields(r)
    ELSE IF has_strip(r)
         THEN [type |-> "dict", classification |-> PyStr("UNKNOWN"),
               confidence |-> PyInt(0), reasoning |-> PyStr(strip(r.value)),
               raw_response |-> r]
         ELSE Raised("AttributeError")

\* bool(v) is False: None and the empty values.
falsy(v) == v.type = "NoneType" \/ (v.type \in {"str", "list"} /\ v.value = <<>>)

\* The failure dict with its confidence left unset.
failure_confidence_none(error, reasoning) ==
    [type |-> "dict", success |-> FALSE, error |-> PyStr(error),
     classification |-> None, confidence |-> None,
     reasoning |-> reasoning]

\* The dict classify returns on a failure.
failure(error, reasoning) ==
    [type |-> "dict", success |-> FALSE, error |-> PyStr(error),
     classification |-> None, confidence |-> PyInt(0),
     reasoning |-> reasoning]

-----------------------------------------------------------------------------
(* Inputs *)

\* The chunks a classify input is made of.
TextChunks ==
    {<<"a">>, <<" ">>, <<"@">>, <<"!", "!">>,
     Rep("1", DEFAULT_MIN_LENGTH), Rep("a", DEFAULT_MIN_LENGTH),
     Rep("@", DEFAULT_MIN_LENGTH - 1), Rep("a", DEFAULT_MAX_LENGTH + 1)}

Texts == ChunkTexts(TextChunks, MaxTextChunks)

\* The chunks the text of an HTTP reply is made of.
HttpReplyChunks ==
    {<<"CLASSIFICATION", ":", " ", "REAL">>,
     <<"CONFIDENCE", ":", "1", "5", "0">>,
     <<"reasoning", ":", " ", "x">>,
     <<"x", "\n">>}

\* The JSON values response.json() returns: a dict whose "response" is a
\* text, a list or null, a dict with no "response", and a value that is no dict.
JsonBodies ==
    {[type |-> "dict", has_response |-> TRUE, response |-> PyStr(r)] :
        r \in ChunkTexts(HttpReplyChunks, MaxHttpChunks)}
    \cup {[type |-> "dict", has_response |-> TRUE, response |-> PyList(<<>>)],
          [type |-> "dict", has_response |-> TRUE, response |-> None],
          [type |-> "dict", has_response |-> FALSE, response |-> None],
          [type |-> "list", has_response |-> FALSE, response |-> None]}

-----------------------------------------------------------------------------
(* FakeNewsClassifier.classify *)

\* Lines 100-110 without the early return: the failure is logged only.
ClassifyValidateNoReturn ==
    /\ pc = "classify"
    /\ validation' = validate_input(text, DEFAULT_MIN_LENGTH, DEFAULT_MAX_LENGTH)
    /\ pc' = "clean"
    /\ UNCHANGED <<text, min_length, max_length, max_retries, cleaned_text,
                   features, prompt, attempt, posts, gen_calls, model_output,
                   response, parsed_result, result>>

\* Lines 100-110: validate the raw input, return at once when it is invalid.
ClassifyValidate ==
    /\ pc = "classify"
    /\ LET v == validate_input(text, DEFAULT_MIN_LENGTH, DEFAULT_MAX_LENGTH) IN
       /\ validation' = v
       /\ IF ~ v[1]
          THEN /\ result' = failure(v[2].value, None)
               /\ pc' = "done"
          ELSE /\ pc' = "clean"
               /\ UNCHANGED result
    /\ UNCHANGED <<text, min_length, max_length, max_retries, cleaned_text,
                   features, prompt, attempt, posts, gen_calls, model_output,
                   response, parsed_result>>

\* Lines 112-120 with the prompt built from the raw text (line 120 given
\* text in place of cleaned_text).
ClassifyCleanRawPrompt ==
    /\ pc = "clean"
    /\ cleaned_text' = clean_text(text)
    /\ features' = extract_features(clean_text(text))
    /\ prompt' = _create_classification_prompt(text)
    /\ pc' = "call_model"
    /\ UNCHANGED <<text, min_length, max_length, max_retries, validation,
                   attempt, posts, gen_calls, model_output, response,
                   parsed_result, result>>

\* Lines 112-120: clean the text, extract the features, build the prompt.
ClassifyClean ==
    /\ pc = "clean"
    /\ cleaned_text' = clean_text(text)
    /\ features' = extract_features(clean_text(text))
    /\ prompt' = _create_classification_prompt(clean_text(text))
    /\ pc' = "call_model"
    /\ UNCHANGED <<text, min_length, max_length, max_retries, validation,
                   attempt, posts, gen_calls, model_output, response,
                   parsed_result, result>>

\* Line 123: call generate_response(prompt); the loop starts at attempt 0.
ClassifyCallModel ==
    /\ pc = "call_model"
    /\ gen_calls' = gen_calls + 1
    /\ attempt' = 0
    /\ pc' = "generate_response"
    /\ UNCHANGED <<text, min_length, max_length, max_retries, validation,
                   cleaned_text, features, prompt, posts, model_output,
                   response, parsed_result, result>>

-----------------------------------------------------------------------------
(* OllamaHandler.generate_response *)

\* The exceptions an attempt ends with; "Exception" is any other one.
Exceptions ==
    {"Timeout", "ConnectionError", "HTTPError", "JSONDecodeError", "Exception"}

\* Config.OLLAMA_MODEL's default.
OLLAMA_MODEL == "llama3:8b"

\* Lines 59-71: the dict built from the decoded body.  result.get raises
\* AttributeError on a value that is no dict, and [:100] (in the debug
\* message) raises TypeError on a value that cannot be sliced.
build_reply(body) ==
    IF body.type # "dict" THEN Raised("Exception")
    ELSE LET r == IF body.has_response THEN body.response ELSE PyStr(<<>>) IN
         IF r.type \notin {"str", "list"} THEN Raised("Exception")
         ELSE [type |-> "dict", response |-> r, model |-> OLLAMA_MODEL,
               eval_count |-> 0]

\* The except clauses with no retry: a timeout returns None at once.
on_exception_no_retry(e, a, m) == "return"

\* The except clauses with an HTTP error retried like a timeout.
on_exception_retry_http(e, a, m) ==
    IF e \in {"Timeout", "HTTPError"}
    THEN IF a = m - 1 THEN "return" ELSE "continue"
    ELSE "return"

\* Lines 74-96: what the except clauses do with exception e raised in attempt a
\* of m: "continue" with the next attempt, or "return" None.
on_exception(e, a, m) ==
    IF e = "Timeout"
    THEN IF a = m - 1 THEN "return" ELSE "continue"
    ELSE "return"

\* The attempt ends with exception e.
Handle(e) ==
    /\ posts' = Append(posts, [prompt |-> prompt, outcome |-> e,
                                reply |-> None])
    /\ IF on_exception(e, attempt, max_retries) = "return"
       THEN /\ model_output' = None
            /\ pc' = "returned"
            /\ UNCHANGED attempt
       ELSE /\ attempt' = attempt + 1
            /\ UNCHANGED <<model_output, pc>>

\* One pass of the loop in which requests.post, raise_for_status or
\* response.json() raises.
PostRaises ==
    /\ pc = "generate_response"
    /\ attempt < max_retries
    /\ \E e \in Exceptions \ {"Exception"} : Handle(e)
    /\ UNCHANGED <<text, min_length, max_length, max_retries, validation,
                   cleaned_text, features, prompt, gen_calls, response,
                   parsed_result, result>>

\* One pass of the loop in which the endpoint answers with a JSON body.
PostResponds ==
    /\ pc = "generate_response"
    /\ attempt < max_retries
    /\ \E body \in JsonBodies :
         LET r == build_reply(body) IN
         IF r.type = "exception" THEN Handle(r.value)
         ELSE /\ posts' = Append(posts, [prompt |-> prompt, outcome |-> "OK",
                                         reply |-> r])
              /\ model_output' = r
              /\ pc' = "returned"
              /\ UNCHANGED attempt
    /\ UNCHANGED <<text, min_length, max_length, max_retries, validation,
                   cleaned_text, features, prompt, gen_calls, response,
                   parsed_result, result>>

\* Line 98: the loop ends without a return (range(max_retries) is empty).
LoopExhausted ==
    /\ pc = "generate_response"
    /\ attempt >= max_retries
    /\ model_output' = None
    /\ pc' = "returned"
    /\ UNCHANGED <<text, min_length, max_length, max_retries, validation,
                   cleaned_text, features, prompt, attempt, posts, gen_calls,
                   response, parsed_result, result>>

-----------------------------------------------------------------------------
(* FakeNewsClassifier.classify, after the model call *)

\* Lines 125-133 with one more call of generate_response after a call that
\* gave no reply.
ClassifyCheckOutputRetry ==
    /\ pc = "returned"
    /\ IF falsy(model_output)
       THEN IF gen_calls < 2
            THEN /\ pc' = "call_model"
                 /\ UNCHANGED result
            ELSE /\ result' = failure("Failed to communicate with Ollama. Please ensure the service is running.", None)
                 /\ pc' = "done"
       ELSE /\ pc' = "parse"
            /\ UNCHANGED result
    /\ UNCHANGED <<text, min_length, max_length, max_retries, validation,
                   cleaned_text, features, prompt, attempt, posts, gen_calls,
                   model_output, response, parsed_result>>

\* Lines 125-133: no reply is a communication failure.
ClassifyCheckOutput ==
    /\ pc = "returned"
    /\ IF falsy(model_output)
       THEN /\ result' = failure("Failed to communicate with Ollama. Please ensure the service is running.", None)
            /\ pc' = "done"
       ELSE /\ pc' = "parse"
            /\ UNCHANGED result
    /\ UNCHANGED <<text, min_length, max_length, max_retries, validation,
                   cleaned_text, features, prompt, attempt, posts, gen_calls,
                   model_output, response, parsed_result>>

\* Line 136: parse the reply; an exception of the parser leaves classify.
ClassifyParse ==
    /\ pc = "parse"
    /\ response' = model_output.response
    /\ LET p == _parse_model_response(model_output.response) IN
       /\ parsed_result' = p
       /\ IF p.type = "exception"
          THEN /\ result' = p
               /\ pc' = "raised"
          ELSE /\ pc' = "parsed"
               /\ UNCHANGED result
    /\ UNCHANGED <<text, min_length, max_length, max_retries, validation,
                   cleaned_text, features, prompt, attempt, posts, gen_calls,
                   model_output>>

\* Lines 138-159 with an UNKNOWN classification taken for a parse failure.
classify_result_strict(parsed, output, feats) ==
    IF falsy(parsed) \/ parsed.classification = PyStr("UNKNOWN")
    THEN [type |-> "dict", success |-> FALSE,
          error |-> PyStr("Failed to parse model response"),
          classification |-> None, confidence |-> PyInt(0),
          reasoning |-> output.response]
    ELSE [type |-> "dict", success |-> TRUE,
          classification |-> parsed.classification,
          confidence |-> parsed.confidence,
          reasoning |-> parsed.reasoning,
          features |-> feats,
          model_info |-> [model |-> output.model,
                          eval_count |-> output.eval_count]]

\* Lines 138-159: the result.
classify_result(parsed, output, feats) ==
    IF falsy(parsed)
    THEN failure("Failed to parse model response", output.response)
    ELSE [type |-> "dict", success |-> TRUE,
          classification |-> parsed.classification,
          confidence |-> parsed.confidence,
          reasoning |-> parsed.reasoning,
          features |-> feats,
          model_info |-> [model |-> output.model,
                          eval_count |-> output.eval_count]]

ClassifyReturn ==
    /\ pc = "parsed"
    /\ result' = classify_result(parsed_result, model_output, features)
    /\ pc' = "done"
    /\ UNCHANGED <<text, min_length, max_length, max_retries, validation,
                   cleaned_text, features, prompt, attempt, posts, gen_calls,
                   model_output, response, parsed_result>>

-----------------------------------------------------------------------------
(* The classification pipeline: one classify call on any input *)

Init ==
    /\ text \in Texts
    /\ min_length = DEFAULT_MIN_LENGTH
    /\ max_length = DEFAULT_MAX_LENGTH
    /\ max_retries \in 0..MaxRetries
    /\ pc = "classify"
    /\ validation = Unset
    /\ cleaned_text = Unset
    /\ features = Unset
    /\ prompt = Unset
    /\ attempt = 0
    /\ posts = <<>>
    /\ gen_calls = 0
    /\ model_output = Unset
    /\ response = Unset
    /\ parsed_result = Unset
    /\ result = Unset

Next ==
    \/ ClassifyValidate
    \/ ClassifyClean
    \/ ClassifyCallModel
    \/ PostRaises
    \/ PostResponds
    \/ LoopExhausted
    \/ ClassifyCheckOutput
    \/ ClassifyParse
    \/ ClassifyReturn

Spec == Init /\ [][Next]_vars

-----------------------------------------------------------------------------
(* validate_input on its own, for any text and any bounds *)

\* The characters of the texts validate_input is given.
ValidateChars == {"a", "1", "!", " ", "\n"}

ValidateTexts == UNION {[1..n -> ValidateChars] : n \in 0..MaxLen}

InitValidate ==
    /\ text \in ValidateTexts
    /\ min_length \in 0..MaxBound
    /\ max_length \in 0..MaxBound
    /\ max_retries = 0
    /\ pc = "validate_input"
    /\ validation = Unset
    /\ cleaned_text = Unset
    /\ features = Unset
    /\ prompt = Unset
    /\ attempt = 0
    /\ posts = <<>>
    /\ gen_calls = 0
    /\ model_output = Unset
    /\ response = Unset
    /\ parsed_result = Unset
    /\ result = Unset

RunValidate ==
    /\ pc = "validate_input"
    /\ validation' = validate_input(text, min_length, max_length)
    /\ pc' = "validated"
    /\ UNCHANGED <<text, min_length, max_length, max_retries, cleaned_text,
                   features, prompt, attempt, posts, gen_calls, model_output,
                   response, parsed_result, result>>

SpecValidate == InitValidate /\ [][RunValidate]_vars

-----------------------------------------------------------------------------
(* _parse_model_response on its own, for any reply *)

\* The chunks a reply given to the parser is made of.
ReplyChunks ==
    {<<"CLASSIFICATION", ":", " ", "REAL">>,
     <<"classification", "-", "fake">>,
     <<"CONFIDENCE", ":", " ">>,
     <<"confidence", "-">>,
     <<"9">>, <<"1", "0">>, <<"-">>,
     <<"REASONING", ":">>,
     <<"reasoning", " ", "-", "\n">>,
     <<"x">>, <<" ">>}

\* The reply is a text of at most MaxReplyChunks chunks, or a value that is no
\* str (a list).
InitParse ==
    /\ \/ \E k \in 0..MaxReplyChunks : \E cs \in [1..k -> ReplyChunks] :
             response = PyStr(Flatten(cs))
       \/ response = PyList(<<>>)
    /\ text = <<>>
    /\ min_length = DEFAULT_MIN_LENGTH
    /\ max_length = DEFAULT_MAX_LENGTH
    /\ max_retries = 0
    /\ pc = "_parse_model_response"
    /\ validation = Unset
    /\ cleaned_text = Unset
    /\ features = Unset
    /\ prompt = Unset
    /\ attempt = 0
    /\ posts = <<>>
    /\ gen_calls = 0
    /\ model_output = Unset
    /\ parsed_result = Unset
    /\ result = Unset

RunParse ==
    /\ pc = "_parse_model_response"
    /\ parsed_result' = _parse_model_response(response)
    /\ pc' = IF _parse_model_response(response).type = "exception"
             THEN "parser_raised" ELSE "parser_returned"
    /\ UNCHANGED <<text, min_length, max_length, max_retries, validation,
                   cleaned_text, features, prompt, attempt, posts, gen_calls,
                   model_output, response, result>>

SpecParse == InitParse /\ [][RunParse]_vars

-----------------------------------------------------------------------------
(* Properties of the pipeline (Spec) *)

\* The input of the running classify call fails validate_input.
InputInvalid ==
    ~ validate_input(text, DEFAULT_MIN_LENGTH, DEFAULT_MAX_LENGTH)[1]

CommunicationFailure ==
    PyStr("Failed to communicate with Ollama. Please ensure the service is running.")

\* Every HTTP attempt issued so far timed out.
AllTimedOut == \A i \in 1..Len(posts) : posts[i].outcome = "Timeout"

\* generate_response has returned to classify.
GenerateReturned == gen_calls > 0 /\ pc # "generate_response"

\* C1: on an input that validate_input rejects, classify returns at once
\* (its first step ends the call) a result with success = False whose error
\* is exactly validate_input's message, and neither generate_response nor an
\* HTTP attempt is ever made in that call.
C1_InvalidInputNoModelCall ==
    InputInvalid =>
        /\ gen_calls = 0
        /\ posts = <<>>
        /\ pc \in {"classify", "done"}
        /\ pc = "done" =>
              /\ result.type = "dict"
              /\ result.success = FALSE
              /\ result.error =
                   validate_input(text, DEFAULT_MIN_LENGTH, DEFAULT_MAX_LENGTH)[2]

C1_Witness ==
    /\ pc = "done"
    /\ InputInvalid
    /\ result.error = PyStr("Text must contain alphabetic characters")
    /\ gen_calls = 0

\* C2: when every HTTP attempt times out, generate_response returns None after
\* exactly max_retries attempts, for every max_retries, and classify (on a
\* valid input) returns the communication failure.
C2_AllTimeoutsExhaustRetries ==
    (GenerateReturned /\ AllTimedOut) =>
        /\ model_output = None
        /\ Len(posts) = max_retries
        /\ pc \in {"returned", "done"}
        /\ pc = "done" =>
              /\ result.success = FALSE
              /\ result.error = CommunicationFailure

C2_Witness ==
    /\ pc = "done"
    /\ max_retries >= 2
    /\ Len(posts) = max_retries
    /\ AllTimedOut
    /\ result.error = CommunicationFailure

\* C3: an attempt that ends with a connection failure, an HTTP status error or
\* an undecodable body is the last one, whatever its number and however many
\* retries remain, and generate_response returns None; every attempt that was
\* followed by another one timed out.
C3_OnlyTimeoutRetries ==
    /\ \A i \in 1..Len(posts) :
          posts[i].outcome \in {"ConnectionError", "HTTPError", "JSONDecodeError"} =>
              /\ i = Len(posts)
              /\ pc # "generate_response"
              /\ model_output = None
    /\ \A i \in 1..(Len(posts) - 1) : posts[i].outcome = "Timeout"

C3_Witness ==
    /\ Len(posts) = 1
    /\ posts[1].outcome = "HTTPError"
    /\ max_retries >= 2
    /\ model_output = None
    /\ pc = "done"

\* C4: every result classify returns is well formed.  With success = True:
\* classification is REAL, FAKE or UNKNOWN, confidence is an int in [0,100],
\* reasoning is a str and features is present.  With success = False: error is
\* a non-empty str, classification is None, confidence is 0, reasoning is None.
C4_ResultWellFormed ==
    pc = "done" =>
        /\ result.type = "dict"
        /\ IF result.success
           THEN /\ result.classification \in
                     {PyStr("REAL"), PyStr("FAKE"), PyStr("UNKNOWN")}
                /\ result.confidence.type = "int"
                /\ result.confidence.value \in 0..100
                /\ result.reasoning.type = "str"
                /\ "features" \in DOMAIN result
           ELSE /\ result.error.type = "str"
                /\ result.error.value # ""
                /\ result.classification = None
                /\ result.confidence = PyInt(0)
                /\ result.reasoning = None

C4_Witness ==
    /\ pc = "done"
    /\ result.success
    /\ result.classification = PyStr("REAL")
    /\ result.confidence = PyInt(100)
    /\ result.reasoning.type = "str"

\* C5: once the model client has returned a reply whose body is a text,
\* classify returns success = True, whatever the text holds (an empty reply, a
\* reply with none of the labels): no parse failure is ever reported.
C5_ReplyAlwaysSucceeds ==
    (GenerateReturned /\ model_output.type = "dict"
        /\ model_output.response.type = "str") =>
        /\ pc # "raised"
        /\ pc = "done" => (result.type = "dict" /\ result.success)

C5_Witness ==
    /\ pc = "done"
    /\ model_output.type = "dict"
    /\ model_output.response = PyStr(<<>>)
    /\ result.success
    /\ result.classification = PyStr("UNKNOWN")

-----------------------------------------------------------------------------
(* Properties of the response parser (SpecParse) *)

\* C6: for every reply text the parser returns a confidence that is an int in
\* [0,100]: also when the digits after the label denote more than 100, when
\* more than three digits follow, and when the number has a minus sign.
C6_ConfidenceInRange ==
    (pc = "parser_returned" /\ response.type = "str") =>
        /\ parsed_result.confidence.type = "int"
        /\ parsed_result.confidence.value >= 0
        /\ parsed_result.confidence.value <= 100

\* Four digits after the label, denoting 1010.
C6_Witness ==
    /\ pc = "parser_returned"
    /\ response = PyStr(<<"confidence", "-", "1", "0", "1", "0">>)
    /\ parsed_result.confidence = PyInt(100)

\* A label with its separator stands at position i of u and its value starts
\* at position k: label, whitespace, ":" or "-", whitespace, and no whitespace
\* at k.
Labelled(u, label, i, k) ==
    /\ u[i] = label
    /\ \E j \in (i + 1)..(k - 1) :
          /\ u[j] \in {":", "-"}
          /\ \A m \in ((i + 1)..(k - 1)) \ {j} : u[m] \in Whitespace
    /\ k <= Len(u) => u[k] \notin Whitespace

\* The first labelled value whose first unit is in Values: <<i, k>>, or <<>>.
FirstLabelled(u, label, Values) ==
    LET found == {ik \in (1..Len(u)) \X (1..Len(u)) :
                     Labelled(u, label, ik[1], ik[2]) /\ u[ik[2]] \in Values}
    IN IF found = {} THEN <<>>
       ELSE CHOOSE ik \in found : \A other \in found : ik[1] <= other[1]

\* The digits that follow position k - 1 of u: the whole run.
DigitRun(u, k) ==
    LET stop == {e \in k..(Len(u) + 1) : e = Len(u) + 1 \/ u[e] \notin DigitChars}
        e == CHOOSE x \in stop : \A y \in stop : x <= y
    IN SubSeq(u, k, e - 1)

\* The decimal number a sequence of digits denotes.
Decimal(ds) ==
    LET pow10[n \in 0..Len(ds)] == IF n = 0 THEN 1 ELSE 10 * pow10[n - 1]
        sum[n \in 0..Len(ds)] ==
            IF n = 0 THEN 0
            ELSE sum[n - 1] + DigitValue(ds[n]) * pow10[Len(ds) - n]
    IN sum[Len(ds)]

\* A text without its leading and trailing whitespace.
Trimmed(t) ==
    LET ink == {i \in 1..Len(t) : t[i] \notin Whitespace} IN
    IF ink = {} THEN <<>>
    ELSE SubSeq(t, CHOOSE i \in ink : \A j \in ink : i <= j,
                   CHOOSE i \in ink : \A j \in ink : i >= j)

\* The classification the claim states: the REAL/FAKE value after the first
\* CLASSIFICATION label that has one, UNKNOWN without one.
StatedClassification(reply) ==
    LET u == upper(reply)
        at == FirstLabelled(u, "CLASSIFICATION", {"REAL", "FAKE"})
    IN IF at = <<>> THEN PyStr("UNKNOWN") ELSE PyStr(u[at[2]])

\* The confidence the claim states: the number after the first CONFIDENCE
\* label that has one, 50 without one.
StatedConfidence(reply) ==
    LET u == upper(reply)
        at == FirstLabelled(u, "CONFIDENCE", DigitChars)
    IN IF at = <<>> THEN PyInt(50) ELSE PyInt(Decimal(DigitRun(u, at[2])))

\* The confidence as amended: the number the first one to three digits
\* denote, and at most 100.
AmendedConfidence(reply) ==
    LET u == upper(reply)
        at == FirstLabelled(u, "CONFIDENCE", DigitChars)
        run == IF at = <<>> THEN <<>> ELSE DigitRun(u, at[2])
        n == Decimal(SubSeq(run, 1, IF Len(run) < 3 THEN Len(run) ELSE 3))
    IN IF at = <<>> THEN PyInt(50) ELSE PyInt(IF n > 100 THEN 100 ELSE n)

\* The reasoning the claim states, up to surrounding whitespace: the text
\* after the first REASONING label with its separator, the whole reply
\* without one.
StatedReasoning(reply) ==
    LET u == upper(reply)
        starts == {i \in 1..Len(u) :
                     \E k \in 1..(Len(u) + 1) : Labelled(u, "REASONING", i, k)}
    IN IF starts = {} THEN PyStr(Trimmed(reply))
       ELSE LET i == CHOOSE x \in starts : \A y \in starts : x <= y
                k == CHOOSE x \in 1..(Len(u) + 1) : Labelled(u, "REASONING", i, x)
            IN PyStr(Trimmed(SubSeq(reply, k, Len(reply))))

\* C7 as stated: the three fields are extracted independently of each other;
\* classification is the REAL/FAKE value after a CLASSIFICATION label and
\* UNKNOWN without one, confidence is the number after a CONFIDENCE label and
\* 50 without one, reasoning is the text after a REASONING label and the
\* entire reply without one.
C7_Original ==
    (pc = "parser_returned" /\ response.type = "str") =>
        /\ parsed_result.classification = StatedClassification(response.value)
        /\ parsed_result.confidence = StatedConfidence(response.value)
        /\ parsed_result.reasoning = StatedReasoning(response.value)

\* C7 as amended: as stated, except that the confidence is the number formed
\* by the first one to three digits after the label, limited to 100, and that
\* the reasoning is stripped of surrounding whitespace.
C7_FieldsIndependent ==
    (pc = "parser_returned" /\ response.type = "str") =>
        /\ parsed_result.classification = StatedClassification(response.value)
        /\ parsed_result.confidence = AmendedConfidence(response.value)
        /\ parsed_result.reasoning = StatedReasoning(response.value)

\* A reply with a classification and a reasoning and no confidence.
C7_Witness ==
    /\ pc = "parser_returned"
    /\ response = PyStr(<<"classification", "-", "fake", "REASONING", ":", "x">>)
    /\ parsed_result.classification = PyStr("FAKE")
    /\ parsed_result.confidence = PyInt(50)
    /\ parsed_result.reasoning = PyStr(<<"x">>)

-----------------------------------------------------------------------------
(* Properties of validate_input (SpecValidate) *)

EmptyMessage == PyStr("Text cannot be empty")
TooShortMessage(min) ==
    PyStr("Text too short. Minimum " \o ToString(min) \o " characters required")
TooLongMessage(max) ==
    PyStr("Text too long. Maximum " \o ToString(max) \o " characters allowed")
AlphabeticMessage == PyStr("Text must contain alphabetic characters")

\* The text holds nothing but whitespace.
Blank(t) == \A i \in 1..Len(t) : t[i] \in Whitespace

\* The text holds no letter.
NoLetter(t) == \A i \in 1..Len(t) : t[i] \notin Letters

\* The four checks in their stated order, each with its message.
Checks(t, min, max) ==
    <<[fails |-> Blank(t), message |-> EmptyMessage],
      [fails |-> Len(Trimmed(t)) < min, message |-> TooShortMessage(min)],
      [fails |-> Len(Trimmed(t)) > max, message |-> TooLongMessage(max)],
      [fails |-> NoLetter(t), message |-> AlphabeticMessage]>>

Failing(t, min, max) == {n \in 1..4 : Checks(t, min, max)[n].fails}

\* C8: validate_input returns the message of the earliest failing check in
\* the order empty, too short, too long, no alphabetic characters, and
\* (True, None) exactly when no check fails.
C8_FirstFailingCheck ==
    pc = "validated" =>
        LET failing == Failing(text, min_length, max_length) IN
        IF failing = {} THEN validation = <<TRUE, None>>
        ELSE LET first == CHOOSE n \in failing : \A m \in failing : n <= m IN
             validation =
                 <<FALSE, Checks(text, min_length, max_length)[first].message>>

\* An input that is too short, too long and without a letter at once.
C8_Witness ==
    /\ pc = "validated"
    /\ Failing(text, min_length, max_length) = {2, 3, 4}
    /\ validation = <<FALSE, TooShortMessage(min_length)>>

\* C9 as stated: every input shorter than min_length fails with the too-short
\* message and every input longer than max_length with the too-long message,
\* blank and padded inputs included.
C9_Original ==
    pc = "validated" =>
        /\ Len(text) < min_length =>
              validation = <<FALSE, TooShortMessage(min_length)>>
        /\ (Len(text) >= min_length /\ Len(text) > max_length) =>
              validation = <<FALSE, TooLongMessage(max_length)>>

\* C9 as amended: the length is that of the text without its surrounding
\* whitespace, and a blank input fails with the empty message instead.
C9_LengthBounds ==
    pc = "validated" =>
        /\ Blank(text) => validation = <<FALSE, EmptyMessage>>
        /\ (~ Blank(text) /\ Len(Trimmed(text)) < min_length) =>
              validation = <<FALSE, TooShortMessage(min_length)>>
        /\ (~ Blank(text) /\ Len(Trimmed(text)) >= min_length
                /\ Len(Trimmed(text)) > max_length) =>
              validation = <<FALSE, TooLongMessage(max_length)>>

\* A padded input: as long as min_length, too short once stripped.
C9_Witness ==
    /\ pc = "validated"
    /\ text = <<" ", "a", " ">>
    /\ min_length = 3
    /\ validation = <<FALSE, TooShortMessage(3)>>

\* C10 as stated: every input without a letter fails with the alphabetic
\* message, whatever its length.
C10_Original ==
    (pc = "validated" /\ NoLetter(text)) =>
        validation = <<FALSE, AlphabeticMessage>>

\* C10 as amended: every input without a letter fails; the message is the
\* alphabetic one exactly when the input is not blank and its stripped length
\* lies within the bounds, and that of the earlier failing check otherwise.
C10_NoLetterFails ==
    (pc = "validated" /\ NoLetter(text)) =>
        /\ validation[1] = FALSE
        /\ validation[2] = AlphabeticMessage <=>
              /\ ~ Blank(text)
              /\ Len(Trimmed(text)) >= min_length
              /\ Len(Trimmed(text)) <= max_length

C10_Witness ==
    /\ pc = "validated"
    /\ text = <<"1", "!", "1">>
    /\ validation = <<FALSE, AlphabeticMessage>>

-----------------------------------------------------------------------------
(* clean_text on its own, applied to a text and then to its own output *)

\* The characters of the texts clean_text is given: a letter, a digit, two
\* kinds of whitespace, a character it removes and two punctuation marks.
CleanChars == {"a", "1", " ", "\n", "@", "!", "."}

InitClean ==
    /\ \E n \in 0..MaxCleanLen : text \in [1..n -> CleanChars]
    /\ min_length = DEFAULT_MIN_LENGTH
    /\ max_length = DEFAULT_MAX_LENGTH
    /\ max_retries = 0
    /\ pc = "clean_text"
    /\ validation = Unset
    /\ cleaned_text = Unset
    /\ features = Unset
    /\ prompt = Unset
    /\ attempt = 0
    /\ posts = <<>>
    /\ gen_calls = 0
    /\ model_output = Unset
    /\ response = Unset
    /\ parsed_result = Unset
    /\ result = Unset

\* clean_text(text)
RunClean ==
    /\ pc = "clean_text"
    /\ cleaned_text' = clean_text(text)
    /\ pc' = "cleaned"
    /\ UNCHANGED <<text, min_length, max_length, max_retries, validation,
                   features, prompt, attempt, posts, gen_calls, model_output,
                   response, parsed_result, result>>

\* clean_text called again, on the output of the first call.
RunCleanAgain ==
    /\ pc = "cleaned"
    /\ text' = cleaned_text
    /\ cleaned_text' = clean_text(cleaned_text)
    /\ pc' = "cleaned_twice"
    /\ UNCHANGED <<min_length, max_length, max_retries, validation,
                   features, prompt, attempt, posts, gen_calls, model_output,
                   response, parsed_result, result>>

NextClean == RunClean \/ RunCleanAgain

SpecClean == InitClean /\ [][NextClean]_vars

-----------------------------------------------------------------------------
(* Properties of clean_text (SpecClean) *)

\* C11: clean_text is idempotent: cleaning the output of clean_text returns
\* that output unchanged, for every input text.
C11_Idempotent ==
    pc = "cleaned_twice" => cleaned_text = text

\* C12: the output of clean_text holds no run of two or more identical
\* punctuation marks of the allow-list (. , ! ? ; : ' -), no two whitespace
\* characters in a row, and no character outside letters, digits, whitespace
\* and the allow-list.
C12_CleanOutput ==
    pc = "cleaned" =>
        /\ \A i \in 1..(Len(cleaned_text) - 1) :
              ~ (cleaned_text[i] \in {".", ",", "!", "?", ";", ":", "'", "-"}
                   /\ cleaned_text[i + 1] = cleaned_text[i])
        /\ \A i \in 1..(Len(cleaned_text) - 1) :
              ~ (cleaned_text[i] \in Whitespace
                   /\ cleaned_text[i + 1] \in Whitespace)
        /\ \A i \in 1..Len(cleaned_text) :
              cleaned_text[i] \in Letters \cup DigitChars \cup Whitespace
                  \cup {".", ",", "!", "?", ";", ":", "'", "-"}

-----------------------------------------------------------------------------
(* The order of the steps of classify (Spec) *)

\* C13 as stated: the text embedded in the prompt of every model call passes
\* validate_input.
C13_Original ==
    \A i \in DOMAIN posts :
        validate_input(posts[i].prompt.text, min_length, max_length)[1]

\* C13: classify validates the raw text, then cleans it, builds the prompt,
\* calls the model and parses: nothing is cleaned or sent before validation,
\* a model call is made only for a raw text that passes validate_input, the
\* prompt of every call embeds clean_text of that text, and a reply is parsed
\* only after a model call.
C13_ValidateThenClean ==
    /\ pc = "classify" => gen_calls = 0 /\ posts = <<>>
    /\ pc \in {"clean", "call_model"} =>
           validation[1] /\ gen_calls = 0 /\ posts = <<>>
    /\ gen_calls > 0 =>
           /\ validate_input(text, DEFAULT_MIN_LENGTH, DEFAULT_MAX_LENGTH)[1]
           /\ cleaned_text = clean_text(text)
           /\ prompt.text = clean_text(text)
    /\ \A i \in DOMAIN posts : posts[i].prompt.text = clean_text(text)
    /\ pc \in {"parsed", "raised"} => Len(posts) >= 1

\* A model call made for a text of ten characters that is valid as given and
\* whose cleaned form, the single letter embedded in the prompt, is too short.
C13_Witness ==
    /\ Len(posts) >= 1
    /\ Len(text) = DEFAULT_MIN_LENGTH
    /\ posts[1].prompt.text = <<"a">>
    /\ ~ validate_input(posts[1].prompt.text, min_length, max_length)[1]

-----------------------------------------------------------------------------
(* The HTTP attempts of one classify call (Spec) *)

\* C14: in one classify call generate_response is invoked at most once; its
\* attempts are issued one after another (attempt number a is issued when a
\* earlier ones have ended); there are never more than max_retries of them;
\* an attempt that ended in a success or in an error other than a timeout is
\* the last one; and the reply of a successful attempt is the value
\* generate_response returns and the orchestrator parses.
C14_AttemptsBounded ==
    /\ gen_calls <= 1
    /\ Len(posts) <= max_retries
    /\ pc = "generate_response" => Len(posts) = attempt
    /\ pc # "generate_response" => Len(posts) \in {attempt, attempt + 1}
    /\ \A i \in 1..Len(posts) :
          posts[i].outcome # "Timeout" =>
              /\ i = Len(posts)
              /\ pc # "generate_response"
    /\ \A i \in 1..Len(posts) :
          posts[i].outcome = "OK" =>
              /\ model_output = posts[i].reply
              /\ pc \in {"parsed", "raised"} =>
                     response = posts[i].reply.response

\* A call whose first attempt timed out and whose second attempt succeeded,
\* with the reply of the second attempt parsed into the result.
C14_Witness ==
    /\ gen_calls = 1
    /\ Len(posts) = 2
    /\ posts[1].outcome = "Timeout"
    /\ posts[2].outcome = "OK"
    /\ pc = "done"
    /\ result.success
    /\ response = posts[2].reply.response

-----------------------------------------------------------------------------
(* Faults inside the response parser (SpecParse) *)

\* C15: the response parser never raises outward: for every reply value, one
\* that is not a str included, it returns a record, and when the extraction
\* of the fields faults (the reply is not a str) that record has the
\* classification UNKNOWN, the confidence 0 and the raw reply as reasoning.
C15_ParserNeverRaises ==
    /\ pc # "parser_raised"
    /\ pc = "parser_returned" =>
           /\ parsed_result.type = "dict"
           /\ response.type # "str" =>
                  /\ parsed_result.classification = PyStr("UNKNOWN")
                  /\ parsed_result.confidence = PyInt(0)
                  /\ parsed_result.reasoning = response

-----------------------------------------------------------------------------
(* extract_features on its own *)

\* The pieces of the texts extract_features is given: the clickbait word,
\* letters, a space, an exclamation mark and a question mark.
FeatureChunks ==
    {ClickbaitWording, <<"a">>, <<"A">>, <<" ">>, <<"!">>, <<"?">>}

InitFeatures ==
    /\ \E k \in 0..MaxFeatureChunks : \E cs \in [1..k -> FeatureChunks] :
          text = Flatten(cs)
    /\ min_length = DEFAULT_MIN_LENGTH
    /\ max_length = DEFAULT_MAX_LENGTH
    /\ max_retries = 0
    /\ pc = "extract_features"
    /\ validation = Unset
    /\ cleaned_text = Unset
    /\ features = Unset
    /\ prompt = Unset
    /\ attempt = 0
    /\ posts = <<>>
    /\ gen_calls = 0
    /\ model_output = Unset
    /\ response = Unset
    /\ parsed_result = Unset
    /\ result = Unset

\* extract_features(text)
RunFeatures ==
    /\ pc = "extract_features"
    /\ features' = extract_features(text)
    /\ pc' = "features_extracted"
    /\ UNCHANGED <<text, min_length, max_length, max_retries, validation,
                   cleaned_text, prompt, attempt, posts, gen_calls,
                   model_output, response, parsed_result, result>>

SpecFeatures == InitFeatures /\ [][RunFeatures]_vars

-----------------------------------------------------------------------------
(* Properties of extract_features (SpecFeatures) *)

\* The text has a character that is no whitespace, so it has a word.
HasWord == \E i \in 1..Len(text) : ~ IsSpace(text[i])

HasExclamation == \E i \in 1..Len(text) : text[i] = "!"

=============================================================================
